---- MODULE Spec2Model ----
(***************************************************************************)
(* Assignment Checker backend (backend/app.py, backend/gemini_feedback.py). *)
(*                                                                         *)
(* Python strings are modelled as sequences of one-character strings, so   *)
(* that str.split, str.strip, str.lower, re.split, the `in` substring test *)
(* and the character scan of extract_json are computed character by        *)
(* character as the code computes them.                                    *)
(*                                                                         *)
(* Three specifications share the module:                                  *)
(*   SpecText  - analyze_assignment and its helpers on texts built from a  *)
(*               library of pieces;                                        *)
(*   SpecJson  - extract_json on raw model responses built from tokens;    *)
(*   Spec      - the /api/submit, /api/check and /api/report handlers with *)
(*               generate_ai_feedback and the reports table.               *)
(***************************************************************************)
EXTENDS Integers, Sequences, FiniteSets, TLC

VARIABLES
    text,          \* SpecText: the text handed to analyze_assignment
    npieces,       \* SpecText: number of pieces appended to text so far
    report,        \* SpecText: analyze_assignment(text), or None before the call
    raw,           \* SpecJson: the raw response handed to extract_json
    ntokens,       \* SpecJson: number of tokens appended to raw so far
    extracted,     \* SpecJson: outcome of extract_json(raw), or None before the call
    columns,       \* Spec: the columns of table reports, in table order
    api_key,       \* Spec: os.getenv("GEMINI_API_KEY") is set
    pc,            \* Spec: position of the request in flight
    req,           \* Spec: the request in flight (endpoint, trimmed fields)
    analysis,      \* Spec: analyze_assignment(assignment_text) of the request
    attempt,       \* Spec: loop variable of generate_ai_feedback
    calls,         \* Spec: outcomes of the call_model invocations of this request
    ai_result,     \* Spec: what generate_ai_feedback returned or raised, None before
    response,      \* Spec: last response of /api/submit or /api/check
    assignments,   \* Spec: committed rows of table assignments
    reports,       \* Spec: committed rows of table reports
    stored,        \* Spec: per committed report, the lists handed to the INSERT
    get_response   \* Spec: last response of /api/report/<id>

vars == <<text, npieces, report, raw, ntokens, extracted, columns, api_key,
          pc, req, analysis, attempt, calls, ai_result, response, assignments,
          reports, stored, get_response>>

textVars == <<text, npieces, report>>
jsonVars == <<raw, ntokens, extracted>>
flowVars == <<columns, api_key, pc, req, analysis, attempt, calls, ai_result,
              response, assignments, reports, stored, get_response>>

(***************************************************************************)
(* Python values.                                                          *)
(***************************************************************************)
\* Python's None, distinct from every string (the empty string included).
None == [t |-> "None"]

\* s * n for a string s.
RECURSIVE Rep(_, _)
Rep(s, n) == IF n <= 0 THEN <<>> ELSE s \o Rep(s, n - 1)

\* The indices of a string, in order.
Idx(s) == [i \in 1..Len(s) |-> i]

\* str.isspace for the characters of the model's alphabet.
IsSpace(ch) == ch \in {" ", "\n", "\t", "\r", "\f"}

\* str.lower, character by character.
LowerChar(ch) ==
    CASE ch = "I" -> "i"
      [] ch = "B" -> "b"
      [] ch = "S" -> "s"
      [] OTHER -> ch

lower(s) == [i \in 1..Len(s) |-> LowerChar(s[i])]

\* str.strip(): drop leading and trailing whitespace.
strip(s) ==
    LET keep == SelectSeq(Idx(s), LAMBDA i : ~IsSpace(s[i]))
    IN  IF keep = <<>> THEN <<>> ELSE SubSeq(s, keep[1], keep[Len(keep)])

\* str.split(): the maximal runs of non-whitespace characters, in order.
split(s) ==
    LET n      == Len(s)
        starts == SelectSeq(Idx(s), LAMBDA i :
                      ~IsSpace(s[i]) /\ (i = 1 \/ IsSpace(s[i - 1])))
        ends   == SelectSeq(Idx(s), LAMBDA i :
                      ~IsSpace(s[i]) /\ (i = n \/ IsSpace(s[i + 1])))
    IN  [k \in 1..Len(starts) |-> SubSeq(s, starts[k], ends[k])]

\* kw in s: kw occurs in s as a contiguous substring.
Contains(s, kw) ==
    \E i \in 1..(Len(s) - Len(kw) + 1) : SubSeq(s, i, i + Len(kw) - 1) = kw

\* '\n'.join(list)
RECURSIVE join_newline(_)
join_newline(list) ==
    IF list = <<>> THEN <<>>
    ELSE IF Len(list) = 1 THEN list[1]
    ELSE list[1] \o <<"\n">> \o join_newline(Tail(list))

\* s.split('\n'): the pieces between newlines, empty pieces included.
split_newline(s) ==
    LET n    == Len(s)
        nl   == SelectSeq(Idx(s), LAMBDA i : s[i] = "\n")
        from == [k \in 1..(Len(nl) + 1) |-> IF k = 1 THEN 1 ELSE nl[k - 1] + 1]
        to   == [k \in 1..(Len(nl) + 1) |-> IF k = Len(nl) + 1 THEN n ELSE nl[k] - 1]
    IN  [k \in 1..(Len(nl) + 1) |-> SubSeq(s, from[k], to[k])]

(***************************************************************************)
(* backend/app.py: the rule-based analysis.                                *)
(***************************************************************************)
count_words(t) == Len(split(t))

IntroKeywords ==
    << <<"i","n","t","r","o","d","u","c","t","i","o","n">>,
       <<"i","n","t","r","o">>,
       <<"i","n","t","r","o","d","u","c","e">> >>

BodyKeywords ==
    << <<"b","o","d","y">>,
       <<"m","a","i","n">>,
       <<"c","o","n","t","e","n","t">>,
       <<"d","i","s","c","u","s","s">> >>

ConclusionKeywords ==
    << <<"c","o","n","c","l","u","s","i","o","n">>,
       <<"c","o","n","c","l","u","d","e">>,
       <<"s","u","m","m","a","r","y">>,
       <<"s","u","m","m","a","r","i","z","e">> >>

\* any(keyword in text_lower for keyword in keywords)
AnyKeyword(text_lower, keywords) ==
    \E k \in 1..Len(keywords) : Contains(text_lower, keywords[k])

BodyMinWords == 50

\* Mutant of check_sections: the keywords are looked up in the text as given,
\* without lower-casing it.
check_sections_no_lower(t) ==
    [has_introduction |-> AnyKeyword(t, IntroKeywords),
     has_body         |-> AnyKeyword(t, BodyKeywords)
                             \/ Len(split(t)) > BodyMinWords,
     has_conclusion   |-> AnyKeyword(t, ConclusionKeywords)]

check_sections(t) ==
    LET text_lower == lower(t)
    IN  [has_introduction |-> AnyKeyword(text_lower, IntroKeywords),
         has_body         |-> AnyKeyword(text_lower, BodyKeywords)
                                 \/ Len(split(t)) > BodyMinWords,
         has_conclusion   |-> AnyKeyword(text_lower, ConclusionKeywords)]

IsTerminator(ch) == ch \in {".", "!", "?"}

\* re.split(r'[.!?]+', text): the pieces between maximal runs of terminators;
\* a leading or trailing run leaves an empty first or last piece.
re_split(t) ==
    LET n      == Len(t)
        rstart == SelectSeq(Idx(t), LAMBDA i :
                      IsTerminator(t[i]) /\ (i = 1 \/ ~IsTerminator(t[i - 1])))
        rend   == SelectSeq(Idx(t), LAMBDA i :
                      IsTerminator(t[i]) /\ (i = n \/ ~IsTerminator(t[i + 1])))
        m      == Len(rstart)
    IN  [k \in 1..(m + 1) |->
            SubSeq(t, IF k = 1 THEN 1 ELSE rend[k - 1] + 1,
                      IF k = m + 1 THEN n ELSE rstart[k] - 1)]

MaxWords == 20

\* Mutant of find_long_sentences: a sentence of exactly max_words words counts
\* as long.
find_long_sentences_ge(t, max_words) ==
    LET sentences == re_split(t)
        stripped  == [k \in 1..Len(sentences) |-> strip(sentences[k])]
        long_sentences ==
            SelectSeq(stripped, LAMBDA sentence :
                sentence # <<>> /\ Len(split(sentence)) >= max_words)
    IN  [count |-> Len(long_sentences), sentences |-> long_sentences]

\* Mutant of find_long_sentences: a sentence counts as long when it has more
\* than half of max_words words.
find_long_sentences_half(t, max_words) ==
    LET sentences == re_split(t)
        stripped  == [k \in 1..Len(sentences) |-> strip(sentences[k])]
        long_sentences ==
            SelectSeq(stripped, LAMBDA sentence :
                sentence # <<>> /\ Len(split(sentence)) > max_words \div 2)
    IN  [count |-> Len(long_sentences), sentences |-> long_sentences]

find_long_sentences(t, max_words) ==
    LET sentences == re_split(t)
        stripped  == [k \in 1..Len(sentences) |-> strip(sentences[k])]
        long_sentences ==
            SelectSeq(stripped, LAMBDA sentence :
                sentence # <<>> /\ Len(split(sentence)) > max_words)
    IN  [count |-> Len(long_sentences), sentences |-> long_sentences]

\* long_sentences[:5]
FirstN(list, n) == SubSeq(list, 1, IF Len(list) < n THEN Len(list) ELSE n)

Min(a, b) == IF a < b THEN a ELSE b
Max(a, b) == IF a > b THEN a ELSE b

SectionPenalty == 20
LongSentencePenalty == 2
LongSentenceCap == 20
MinWordCount == 200
WordCountCap == 20
DisplayLimit == 5

\* Mutant of Score: the word-count deduction is applied without the
\* `if word_count < 200` guard.
Score_no_guard(word_count, sections, long_count) ==
    LET s0 == 100
        s1 == IF ~sections.has_introduction THEN s0 - SectionPenalty ELSE s0
        s2 == IF ~sections.has_body THEN s1 - SectionPenalty ELSE s1
        s3 == IF ~sections.has_conclusion THEN s2 - SectionPenalty ELSE s2
        s4 == s3 - Min(long_count * LongSentencePenalty, LongSentenceCap)
        s5 == s4 - Min((MinWordCount - word_count) \div 10, WordCountCap)
    IN  Max(0, s5)

\* Mutant of Score: the long-sentence deduction is not capped.
Score_no_cap(word_count, sections, long_count) ==
    LET s0 == 100
        s1 == IF ~sections.has_introduction THEN s0 - SectionPenalty ELSE s0
        s2 == IF ~sections.has_body THEN s1 - SectionPenalty ELSE s1
        s3 == IF ~sections.has_conclusion THEN s2 - SectionPenalty ELSE s2
        s4 == s3 - long_count * LongSentencePenalty
        s5 == IF word_count < MinWordCount
              THEN s4 - Min((MinWordCount - word_count) \div 10, WordCountCap)
              ELSE s4
    IN  Max(0, s5)

\* Lines 175-194: the score of analyze_assignment.
Score(word_count, sections, long_count) ==
    LET s0 == 100
        s1 == IF ~sections.has_introduction THEN s0 - SectionPenalty ELSE s0
        s2 == IF ~sections.has_body THEN s1 - SectionPenalty ELSE s1
        s3 == IF ~sections.has_conclusion THEN s2 - SectionPenalty ELSE s2
        s4 == s3 - Min(long_count * LongSentencePenalty, LongSentenceCap)
        s5 == IF word_count < MinWordCount
              THEN s4 - Min((MinWordCount - word_count) \div 10, WordCountCap)
              ELSE s4
    IN  Max(0, s5)

\* Lines 196-224: the feedback lines, each one of two fixed templates.
Feedback(word_count, sections, long_count) ==
    << IF word_count < MinWordCount
           THEN <<"Word count is below the recommended 200 words", word_count>>
           ELSE <<"Word count (Good!)", word_count>>,
       IF ~sections.has_introduction
           THEN <<"Missing Introduction section.">>
           ELSE <<"Introduction section found.">>,
       IF ~sections.has_body
           THEN <<"Missing Body section.">>
           ELSE <<"Body section found.">>,
       IF ~sections.has_conclusion
           THEN <<"Missing Conclusion section.">>
           ELSE <<"Conclusion section found.">>,
       IF long_count > 0
           THEN <<"Found sentence(s) with more than 20 words", long_count>>
           ELSE <<"All sentences are within the recommended length.">> >>

analyze_assignment(t) ==
    LET word_count == count_words(t)
        sections   == check_sections(t)
        found      == find_long_sentences(t, MaxWords)
    IN  [word_count           |-> word_count,
         sections             |-> sections,
         long_sentences_count |-> found.count,
         long_sentences       |-> FirstN(found.sentences, DisplayLimit),
         overall_score        |-> Score(word_count, sections, found.count),
         feedback             |-> Feedback(word_count, sections, found.count)]

(***************************************************************************)
(* Python's json module on the model's alphabet.                           *)
(*                                                                         *)
(* A decoded value is None (null), [t |-> "bool", v |-> TRUE or FALSE],     *)
(* [t |-> "str", v |-> the characters], [t |-> "list", v |-> the items] or *)
(* [t |-> "dict", v |-> the items as records [k, v] in insertion order,    *)
(* keys unique].  Numbers and the escapes \uXXXX and \b are not modelled:  *)
(* no text of the model holds a digit, a sign, or a backslash followed by  *)
(* u or b.  The text of a JSONDecodeError is abstracted to one message.    *)
(***************************************************************************)
JStr(chars) == [t |-> "str", v |-> chars]
JList(items) == [t |-> "list", v |-> items]
JDict(items) == [t |-> "dict", v |-> items]
JBool(b) == [t |-> "bool", v |-> b]

\* A call's outcome: a returned value or a raised exception with str(e) = msg.
Returned(v) == [ok |-> TRUE, value |-> v]
Raised(msg) == [ok |-> FALSE, error |-> msg]

JSONDecodeError == <<"JSONDecodeError">>

\* json.decoder.WHITESPACE: ' ', '\t', '\n', '\r'.
IsJsonSpace(ch) == ch \in {" ", "\t", "\n", "\r"}

RECURSIVE SkipWs(_, _)
SkipWs(s, i) ==
    IF i <= Len(s) /\ IsJsonSpace(s[i]) THEN SkipWs(s, i + 1) ELSE i

\* s[i:i+1], "" past the end.
CharAt(s, i) == IF i <= Len(s) THEN s[i] ELSE ""

\* s[i:i+Len(w)] == w
StartsWith(s, i, w) ==
    i + Len(w) - 1 <= Len(s) /\ SubSeq(s, i, i + Len(w) - 1) = w

Failed == [ok |-> FALSE]
Parsed(v, next) == [ok |-> TRUE, v |-> v, next |-> next]

\* json.decoder.py_scanstring from the character after the opening quote:
\* the escapes of BACKSLASH are decoded, any other escape and a raw control
\* character are errors, and so is the end of the text before the closing
\* quote.
Backslash(esc) ==
    CASE esc = "\"" -> "\""
      [] esc = "\\" -> "\\"
      [] esc = "/" -> "/"
      [] esc = "f" -> "\f"
      [] esc = "n" -> "\n"
      [] esc = "r" -> "\r"
      [] esc = "t" -> "\t"
      [] OTHER -> ""

RECURSIVE scanstring(_, _, _)
scanstring(s, i, acc) ==
    IF i > Len(s) THEN Failed
    ELSE IF s[i] = "\"" THEN Parsed(JStr(acc), i + 1)
    ELSE IF s[i] = "\\" THEN
        IF i + 1 > Len(s) THEN Failed
        ELSE IF Backslash(s[i + 1]) # ""
            THEN scanstring(s, i + 2, Append(acc, Backslash(s[i + 1])))
        ELSE Failed
    ELSE IF s[i] \in {"\n", "\t", "\r", "\f"} THEN Failed
    ELSE scanstring(s, i + 1, Append(acc, s[i]))

\* dict(pairs): a later pair replaces the value of an equal earlier key.
RECURSIVE DictOf(_, _)
DictOf(pairs, acc) ==
    IF pairs = <<>> THEN acc
    ELSE LET p == Head(pairs)
             has == \E j \in 1..Len(acc) : acc[j].k = p.k
         IN  DictOf(Tail(pairs),
                    IF has
                    THEN [j \in 1..Len(acc) |->
                            IF acc[j].k = p.k THEN p ELSE acc[j]]
                    ELSE Append(acc, p))

RECURSIVE scan_once(_, _), JSONObjectItems(_, _, _), JSONArrayItems(_, _, _)

\* json.decoder.JSONObject after the opening brace.
JSONObject(s, end) ==
    LET e1 == IF CharAt(s, end) # "\"" THEN SkipWs(s, end) ELSE end
    IN  IF CharAt(s, e1) = "}" THEN Parsed(JDict(<<>>), e1 + 1)
        ELSE IF CharAt(s, e1) # "\"" THEN Failed
        ELSE JSONObjectItems(s, e1 + 1, <<>>)

\* The while loop of JSONObject; i is the position after a key's opening quote.
JSONObjectItems(s, i, pairs) ==
    LET key == scanstring(s, i, <<>>)
    IN  IF ~key.ok THEN Failed
        ELSE LET c == SkipWs(s, key.next)
             IN  IF CharAt(s, c) # ":" THEN Failed
                 ELSE LET val == scan_once(s, SkipWs(s, c + 1))
                      IN  IF ~val.ok THEN Failed
                          ELSE LET d   == SkipWs(s, val.next)
                                   all == Append(pairs, [k |-> key.v.v, v |-> val.v])
                               IN  IF CharAt(s, d) = "}"
                                       THEN Parsed(JDict(DictOf(all, <<>>)), d + 1)
                                   ELSE IF CharAt(s, d) # "," THEN Failed
                                   ELSE LET q == SkipWs(s, d + 1)
                                        IN  IF CharAt(s, q) # "\"" THEN Failed
                                            ELSE JSONObjectItems(s, q + 1, all)

\* json.decoder.JSONArray after the opening bracket.
JSONArray(s, end) ==
    LET e1 == SkipWs(s, end)
    IN  IF CharAt(s, e1) = "]" THEN Parsed(JList(<<>>), e1 + 1)
        ELSE JSONArrayItems(s, e1, <<>>)

JSONArrayItems(s, i, items) ==
    LET val == scan_once(s, i)
    IN  IF ~val.ok THEN Failed
        ELSE LET d   == SkipWs(s, val.next)
                 all == Append(items, val.v)
             IN  IF CharAt(s, d) = "]" THEN Parsed(JList(all), d + 1)
                 ELSE IF CharAt(s, d) # "," THEN Failed
                 ELSE JSONArrayItems(s, SkipWs(s, d + 1), all)

\* json.scanner.py_make_scanner._scan_once
scan_once(s, idx) ==
    IF idx > Len(s) THEN Failed
    ELSE IF s[idx] = "\"" THEN scanstring(s, idx + 1, <<>>)
    ELSE IF s[idx] = "{" THEN JSONObject(s, idx + 1)
    ELSE IF s[idx] = "[" THEN JSONArray(s, idx + 1)
    ELSE IF StartsWith(s, idx, <<"n", "u", "l", "l">>) THEN Parsed(None, idx + 4)
    ELSE IF StartsWith(s, idx, <<"t", "r", "u", "e">>)
        THEN Parsed(JBool(TRUE), idx + 4)
    ELSE IF StartsWith(s, idx, <<"f", "a", "l", "s", "e">>)
        THEN Parsed(JBool(FALSE), idx + 5)
    ELSE Failed

\* json.loads(s): one value between optional whitespace, nothing after it.
json_loads(s) ==
    LET val == scan_once(s, SkipWs(s, 1))
    IN  IF ~val.ok THEN Raised(JSONDecodeError)
        ELSE IF SkipWs(s, val.next) # Len(s) + 1 THEN Raised(JSONDecodeError)
        ELSE Returned(val.v)

\* json.encoder: the characters of a string between its quotes.
RECURSIVE encode_chars(_)
encode_chars(chars) ==
    IF chars = <<>> THEN <<>>
    ELSE (CASE Head(chars) = "\"" -> <<"\\", "\"">>
            [] Head(chars) = "\\" -> <<"\\", "\\">>
            [] Head(chars) = "\n" -> <<"\\", "n">>
            [] Head(chars) = "\r" -> <<"\\", "r">>
            [] Head(chars) = "\t" -> <<"\\", "t">>
            [] Head(chars) = "\f" -> <<"\\", "f">>
            [] OTHER -> <<Head(chars)>>) \o encode_chars(Tail(chars))

\* json.dumps(value) with the default separators ', ' and ': '.
RECURSIVE json_dumps(_), dumps_items(_), dumps_pairs(_)
json_dumps(x) ==
    IF x = None THEN <<"n", "u", "l", "l">>
    ELSE IF x.t = "bool"
        THEN (IF x.v THEN <<"t", "r", "u", "e">> ELSE <<"f", "a", "l", "s", "e">>)
    ELSE IF x.t = "str" THEN <<"\"">> \o encode_chars(x.v) \o <<"\"">>
    ELSE IF x.t = "list" THEN <<"[">> \o dumps_items(x.v) \o <<"]">>
    ELSE <<"{">> \o dumps_pairs(x.v) \o <<"}">>

dumps_items(items) ==
    IF items = <<>> THEN <<>>
    ELSE IF Len(items) = 1 THEN json_dumps(items[1])
    ELSE json_dumps(items[1]) \o <<",", " ">> \o dumps_items(Tail(items))

dumps_pairs(pairs) ==
    IF pairs = <<>> THEN <<>>
    ELSE LET one == <<"\"">> \o encode_chars(pairs[1].k) \o <<"\"", ":", " ">>
                        \o json_dumps(pairs[1].v)
         IN  IF Len(pairs) = 1 THEN one
             ELSE one \o <<",", " ">> \o dumps_pairs(Tail(pairs))

\* d.get(key, default)
dict_get(d, key, default) ==
    IF \E j \in 1..Len(d.v) : d.v[j].k = key
    THEN d.v[CHOOSE j \in 1..Len(d.v) : d.v[j].k = key].v
    ELSE default

(***************************************************************************)
(* backend/gemini_feedback.py: extract_json.                               *)
(***************************************************************************)
\* raw_text.find("{"): the first position of '{', 0 when there is none
\* (positions count from 1; Python's -1 is 0 here).
find_brace(raw_text) ==
    LET at == SelectSeq(Idx(raw_text), LAMBDA i : raw_text[i] = "{")
    IN  IF at = <<>> THEN 0 ELSE at[1]

NoJsonObject == <<"No JSON object found in Gemini response">>
IncompleteJson == <<"Incomplete JSON (missing closing brace)">>

\* The loop's variables before the first pass.
ScanStart ==
    [brace_count |-> 0, in_string |-> FALSE, escape |-> FALSE,
     returned |-> FALSE, result |-> None]

\* Mutant of extract_pass: there is no escape flag, so a quote after a
\* backslash still toggles the string flag.
extract_pass_no_escape(raw_text, start, st, i) ==
    LET ch == raw_text[i]
    IN  IF ch = "\"" THEN [st EXCEPT !.in_string = ~st.in_string]
        ELSE IF ~st.in_string /\ ch = "{"
            THEN [st EXCEPT !.brace_count = st.brace_count + 1]
        ELSE IF ~st.in_string /\ ch = "}"
            THEN IF st.brace_count - 1 = 0
                 THEN [st EXCEPT !.brace_count = 0, !.returned = TRUE,
                                 !.result = json_loads(SubSeq(raw_text, start, i))]
                 ELSE [st EXCEPT !.brace_count = st.brace_count - 1]
        ELSE st

\* Lines 88-109: one pass of the for loop of extract_json, at position i.
extract_pass(raw_text, start, st, i) ==
    LET ch == raw_text[i]
    IN  IF st.escape THEN [st EXCEPT !.escape = FALSE]
        ELSE IF ch = "\\" THEN [st EXCEPT !.escape = TRUE]
        ELSE IF ch = "\"" THEN [st EXCEPT !.in_string = ~st.in_string]
        ELSE IF ~st.in_string /\ ch = "{"
            THEN [st EXCEPT !.brace_count = st.brace_count + 1]
        ELSE IF ~st.in_string /\ ch = "}"
            THEN IF st.brace_count - 1 = 0
                 THEN [st EXCEPT !.brace_count = 0, !.returned = TRUE,
                                 !.result = json_loads(SubSeq(raw_text, start, i))]
                 ELSE [st EXCEPT !.brace_count = st.brace_count - 1]
        ELSE st

\* Line 87: `for i in range(lo, hi + 1)` from loop variables st, the passes
\* in order of i and none after the return (the range is halved to keep the
\* evaluation shallow; the order of the passes is that of the loop).
RECURSIVE extract_loop(_, _, _, _, _)
extract_loop(raw_text, start, st, lo, hi) ==
    IF st.returned \/ lo > hi THEN st
    ELSE IF lo = hi THEN extract_pass(raw_text, start, st, lo)
    ELSE LET mid == (lo + hi) \div 2
         IN  extract_loop(raw_text, start,
                          extract_loop(raw_text, start, st, lo, mid), mid + 1, hi)

extract_json(raw_text) ==
    LET start == find_brace(raw_text)
        final == extract_loop(raw_text, start, ScanStart, start, Len(raw_text))
    IN  IF start = 0 THEN Raised(NoJsonObject)
        ELSE IF final.returned THEN final.result
        ELSE Raised(IncompleteJson)

(***************************************************************************)
(* backend/gemini_feedback.py: generate_ai_feedback.  The function blocks   *)
(* in call_model(); what the provider answers is the environment's choice. *)
(***************************************************************************)
MissingKey == <<"GEMINI_API_KEY not found in .env">>
ProviderError == <<"provider call failed">>
IndexError == <<"list index out of range">>

\* What one call_model() and the read of its text can do: the provider call
\* raises, the response has no candidate, or it carries a text.
CallRaises == [kind |-> "raises"]
CallEmpty == [kind |-> "empty"]
CallText(t) == [kind |-> "text", text |-> t]

\* f"Gemini API error: {str(e)}"
Wrapped(msg) == <<"Gemini API error: ">> \o msg

\* Lines 38-41: the credential check that precedes the loop.
generate_begin(key_set) ==
    IF ~key_set THEN [done |-> TRUE, result |-> Raised(MissingKey)]
    ELSE [done |-> FALSE, result |-> None]

\* Mutant of generate_attempt: a failed extraction raises at once, on the
\* first attempt too.
generate_attempt_no_retry(n, outcome) ==
    IF outcome.kind = "raises"
        THEN [done |-> TRUE, result |-> Raised(ProviderError), extract |-> None]
    ELSE IF outcome.kind = "empty"
        THEN [done |-> TRUE, result |-> Raised(IndexError), extract |-> None]
    ELSE LET raw_text == strip(outcome.text)
             feedback == extract_json(raw_text)
         IN  IF feedback.ok
                 THEN [done |-> TRUE, result |-> Returned(feedback.value),
                       extract |-> feedback]
             ELSE [done |-> TRUE, result |-> Raised(Wrapped(feedback.error)),
                   extract |-> feedback]

\* Lines 114-123: one pass of `for attempt in range(2)` with loop variable n,
\* given what call_model() did.  done: the function has returned or raised.
generate_attempt(n, outcome) ==
    IF outcome.kind = "raises"
        THEN [done |-> TRUE, result |-> Raised(ProviderError), extract |-> None]
    ELSE IF outcome.kind = "empty"
        THEN [done |-> TRUE, result |-> Raised(IndexError), extract |-> None]
    ELSE LET raw_text == strip(outcome.text)
             feedback == extract_json(raw_text)
         IN  IF feedback.ok
                 THEN [done |-> TRUE, result |-> Returned(feedback.value),
                       extract |-> feedback]
             ELSE IF n = 1
                 THEN [done |-> TRUE, result |-> Raised(Wrapped(feedback.error)),
                       extract |-> feedback]
             ELSE [done |-> FALSE, result |-> None, extract |-> feedback]

(***************************************************************************)
(* backend/app.py: the tables and the request handlers.                    *)
(***************************************************************************)
JInt(n) == [t |-> "int", v |-> n]

\* Python truthiness of a cell or decoded value.
Truthy(x) ==
    CASE x.t = "None" -> FALSE
      [] x.t = "int" -> x.v # 0
      [] x.t = "bool" -> x.v
      [] OTHER -> x.v # <<>>

\* sqlite3 binds None, int, bool and str; any other parameter raises.
Bindable(x) == x.t \in {"None", "int", "bool", "str"}

\* The value sqlite3 stores for a bound parameter (a bool is stored as 0 / 1).
Bound(x) == IF x.t = "bool" THEN JInt(IF x.v THEN 1 ELSE 0) ELSE x

\* Lines 47-66: the columns of reports as init_db creates the table.
CreatedColumns ==
    << "id", "assignment_id", "word_count", "has_introduction", "has_body",
       "has_conclusion", "long_sentences_count", "long_sentences",
       "overall_score", "feedback", "ai_overall_evaluation", "ai_strengths",
       "ai_weaknesses", "ai_suggestions", "created_at" >>

\* The columns of a reports table created before the AI feedback fields were
\* added to CREATE TABLE: the table the migration of lines 68-80 is for.
LegacyColumns ==
    << "id", "assignment_id", "word_count", "has_introduction", "has_body",
       "has_conclusion", "long_sentences_count", "long_sentences",
       "overall_score", "feedback", "created_at" >>

\* Lines 73-80: the columns the migration looks for, in the order it adds them.
AiColumns ==
    << "ai_overall_evaluation", "ai_strengths", "ai_weaknesses",
       "ai_suggestions" >>

\* Lines 47-82: the columns of reports after init_db, given the columns of
\* the table found in the database file (<<>>: there is no reports table).
\* CREATE TABLE IF NOT EXISTS leaves an existing table as it is, and ALTER
\* TABLE ADD COLUMN appends each missing column after the last one.
init_db(existing) ==
    LET table   == IF existing = <<>> THEN CreatedColumns ELSE existing
        found   == {table[c] : c \in 1..Len(table)}
        missing == SelectSeq(AiColumns, LAMBDA name : name \notin found)
    IN  table \o missing

CurrentTimestamp == JStr(<<"n", "o", "w">>)

\* INSERT INTO reports (...) VALUES (...): the row in table order; id is the
\* next rowid, created_at its default, a column not named is NULL.
InsertRow(cols, id, values) ==
    [c \in 1..Len(cols) |->
        IF cols[c] = "id" THEN JInt(id)
        ELSE IF cols[c] = "created_at" THEN CurrentTimestamp
        ELSE IF cols[c] \in DOMAIN values THEN Bound(values[cols[c]])
        ELSE None]

KeyEvaluation == <<"o","v","e","r","a","l","l","_","e","v","a","l","u","a","t","i","o","n">>
KeyStrengths == <<"s","t","r","e","n","g","t","h","s">>
KeyWeaknesses == <<"w","e","a","k","n","e","s","s","e","s">>
KeySuggestions == <<"s","u","g","g","e","s","t","i","o","n","s">>

\* Mutant of Caught: the except branch also puts an empty placeholder into
\* ai_feedback.
Caught_placeholder(outcome) ==
    IF outcome.ok
    THEN [ai_feedback |-> outcome.value, ai_error |-> None]
    ELSE [ai_feedback |-> JDict(<<>>), ai_error |-> JStr(outcome.error)]

\* Mutant of Caught: the except branch leaves ai_error at None.
Caught_silent(outcome) ==
    IF outcome.ok
    THEN [ai_feedback |-> outcome.value, ai_error |-> None]
    ELSE [ai_feedback |-> None, ai_error |-> None]

\* Lines 277-285 and 472-481: ai_feedback and ai_error after the try/except
\* around generate_ai_feedback.
Caught(outcome) ==
    IF outcome.ok
    THEN [ai_feedback |-> outcome.value, ai_error |-> None]
    ELSE [ai_feedback |-> None, ai_error |-> JStr(outcome.error)]

ErrorResponse(status, msg) == [status |-> status, body |-> [error |-> msg]]

\* Lines 483-491: the response of /api/check.
CheckResponse(report_, ai) ==
    [status |-> 200,
     body   |-> [success |-> TRUE, report |-> report_,
                 ai_feedback |-> ai.ai_feedback, ai_error |-> ai.ai_error]]

\* Lines 287-299: the four AI parameters of the INSERT.
AiParameters(ai_feedback) ==
    IF Truthy(ai_feedback)
    THEN [ai_overall_evaluation |-> dict_get(ai_feedback, KeyEvaluation, None),
          ai_strengths   |-> JStr(json_dumps(dict_get(ai_feedback, KeyStrengths, JList(<<>>)))),
          ai_weaknesses  |-> JStr(json_dumps(dict_get(ai_feedback, KeyWeaknesses, JList(<<>>)))),
          ai_suggestions |-> JStr(json_dumps(dict_get(ai_feedback, KeySuggestions, JList(<<>>))))]
    ELSE [ai_overall_evaluation |-> None, ai_strengths |-> None,
          ai_weaknesses |-> None, ai_suggestions |-> None]

\* Lines 309-323: the parameters of the INSERT INTO reports.
ReportParameters(assignment_id, report_, ai_feedback) ==
    LET ai == AiParameters(ai_feedback)
    IN  [assignment_id        |-> JInt(assignment_id),
         word_count           |-> JInt(report_.word_count),
         has_introduction     |-> JBool(report_.sections.has_introduction),
         has_body             |-> JBool(report_.sections.has_body),
         has_conclusion       |-> JBool(report_.sections.has_conclusion),
         long_sentences_count |-> JInt(report_.long_sentences_count),
         long_sentences       |-> JStr(join_newline(report_.long_sentences)),
         overall_score        |-> JInt(report_.overall_score),
         feedback             |-> JStr(report_.feedback),
         ai_overall_evaluation |-> ai.ai_overall_evaluation,
         ai_strengths         |-> ai.ai_strengths,
         ai_weaknesses        |-> ai.ai_weaknesses,
         ai_suggestions       |-> ai.ai_suggestions]

\* The lists a report is stored from, kept beside the table for comparison
\* with what /api/report returns.
StoredLists(report_, ai_feedback) ==
    [long_sentences |-> report_.long_sentences,
     has_ai      |-> Truthy(ai_feedback),
     strengths   |-> IF Truthy(ai_feedback)
                     THEN dict_get(ai_feedback, KeyStrengths, JList(<<>>)) ELSE None,
     weaknesses  |-> IF Truthy(ai_feedback)
                     THEN dict_get(ai_feedback, KeyWeaknesses, JList(<<>>)) ELSE None,
     suggestions |-> IF Truthy(ai_feedback)
                     THEN dict_get(ai_feedback, KeySuggestions, JList(<<>>)) ELSE None]

\* Lines 257-340 after generate_ai_feedback has returned or raised: the
\* INSERTs, the commit and the 201 response; a parameter sqlite3 cannot bind
\* raises, nothing is committed and the handler answers 500.
FinishSubmit(r, report_, outcome) ==
    LET ai            == Caught(outcome)
        assignment_id == Len(assignments) + 1
        report_id     == Len(reports) + 1
        params        == ReportParameters(assignment_id, report_, ai.ai_feedback)
    IN  IF ~Bindable(params.ai_overall_evaluation)
        THEN /\ response' = ErrorResponse(500, <<"Error binding parameter">>)
             /\ UNCHANGED <<assignments, reports, stored>>
        ELSE /\ assignments' = Append(assignments,
                    [id |-> assignment_id, student_name |-> r.student_name,
                     assignment_text |-> r.assignment_text,
                     word_count |-> count_words(r.assignment_text)])
             /\ reports' = Append(reports, InsertRow(columns, report_id, params))
             /\ stored' = Append(stored, StoredLists(report_, ai.ai_feedback))
             /\ response' =
                    [status |-> 201,
                     body   |-> [success |-> TRUE, assignment_id |-> assignment_id,
                                 report_id |-> report_id, report |-> report_,
                                 ai_feedback |-> ai.ai_feedback,
                                 ai_error |-> ai.ai_error]]

FinishCheck(report_, outcome) ==
    /\ response' = CheckResponse(report_, Caught(outcome))
    /\ UNCHANGED <<assignments, reports, stored>>

Finish(r, report_, outcome) ==
    IF r.endpoint = "submit" THEN FinishSubmit(r, report_, outcome)
    ELSE FinishCheck(report_, outcome)

\* Lines 342-409: the response of /api/report/<assignment_id> for the row
\* SELECT * returns (row[c] is report[c - 1] of the code).
ReadLoads(cell) ==
    LET got == json_loads(cell.v)
    IN  IF got.ok THEN got.value ELSE JList(<<>>)

ReportDict(row) ==
    LET feedback_items ==
            (IF Truthy(row[11]) THEN << [k |-> KeyEvaluation, v |-> row[11]] >> ELSE <<>>)
            \o (IF Truthy(row[12]) THEN << [k |-> KeyStrengths, v |-> ReadLoads(row[12])] >> ELSE <<>>)
            \o (IF Truthy(row[13]) THEN << [k |-> KeyWeaknesses, v |-> ReadLoads(row[13])] >> ELSE <<>>)
            \o (IF Truthy(row[14]) THEN << [k |-> KeySuggestions, v |-> ReadLoads(row[14])] >> ELSE <<>>)
    IN  [id                   |-> row[1].v,
         assignment_id        |-> row[2].v,
         word_count           |-> row[3].v,
         has_introduction     |-> Truthy(row[4]),
         has_body             |-> Truthy(row[5]),
         has_conclusion       |-> Truthy(row[6]),
         long_sentences_count |-> row[7].v,
         long_sentences       |-> IF Truthy(row[8]) THEN split_newline(row[8].v) ELSE <<>>,
         overall_score        |-> row[9].v,
         feedback             |-> row[10],
         has_ai_feedback      |-> Len(row) > 10 /\ feedback_items # <<>>,
         ai_feedback          |-> IF Len(row) > 10 /\ feedback_items # <<>>
                                  THEN JDict(feedback_items) ELSE None,
         created_at           |-> IF Len(row) > 10 THEN row[Len(row)] ELSE row[11]]

(***************************************************************************)
(* SpecText: analyze_assignment on texts assembled from a library of       *)
(* pieces (words, terminators, keywords, blocks of short sentences, blocks *)
(* of long sentences).                                                     *)
(***************************************************************************)
MaxPieces == 3

W == <<"w", " ">>

\* Ten words and a run of terminators: one sentence of ten words.
ShortSentence == Rep(W, 10) \o <<"?", "!", "\n">>

\* Twenty-one words with a line break after the eleventh, then a full stop.
LongSentence(tag) ==
    Rep(W, 10) \o <<tag, "\n">> \o Rep(W, 10) \o <<".", " ">>

\* Twenty-one words with no blank before the first or after the last, so that
\* a terminator put between two of them leaves their end words joined as one
\* word of the text.
TightSentence == <<"x">> \o Rep(<<" ", "w">>, 20)

Pieces ==
    << W,
       TightSentence,
       Rep(W, 20),
       Rep(W, 30),
       <<".">>,
       <<"\n">>,
       <<"I", "n", "t", "r", "o">>,
       <<"b", "o", "d", "y", " ">>,
       <<"S", "u", "m", "m", "a", "r", "y", "\n">>,
       Rep(ShortSentence, 22),
       LongSentence("a") \o LongSentence("b") \o LongSentence("c")
           \o LongSentence("d") \o LongSentence("e") \o LongSentence("f") >>

\* No request has been made: the state of the handlers' variables in the
\* specifications of the pure functions.
InitFlow ==
    /\ columns = CreatedColumns
    /\ api_key = FALSE
    /\ pc = "idle"
    /\ req = None
    /\ analysis = None
    /\ attempt = 0
    /\ calls = <<>>
    /\ ai_result = None
    /\ response = None
    /\ assignments = <<>>
    /\ reports = <<>>
    /\ stored = <<>>
    /\ get_response = None

IdleText ==
    /\ text = <<>>
    /\ npieces = 0
    /\ report = None

IdleJson ==
    /\ raw = <<>>
    /\ ntokens = 0
    /\ extracted = None

InitText == IdleText /\ IdleJson /\ InitFlow

\* The caller extends the text by one piece.
AppendPiece ==
    /\ report = None
    /\ npieces < MaxPieces
    /\ \E k \in 1..Len(Pieces) : text' = text \o Pieces[k]
    /\ npieces' = npieces + 1
    /\ UNCHANGED <<report, jsonVars, flowVars>>

\* analyze_assignment(text)
Analyze ==
    /\ report = None
    /\ report' = analyze_assignment(text)
    /\ UNCHANGED <<text, npieces, jsonVars, flowVars>>

NextText == AppendPiece \/ Analyze

SpecText == InitText /\ [][NextText]_vars

(***************************************************************************)
(* SpecJson: extract_json on raw responses assembled from tokens.          *)
(***************************************************************************)
MaxTokens == 7

Tokens ==
    << <<"{">>,
       <<"}">>,
       <<"\"">>,
       <<"\\">>,
       <<"x">>,
       <<"\"", "k", "\"", ":">> >>

InitJson == IdleText /\ IdleJson /\ InitFlow

\* The model's response grows by one token.
AppendToken ==
    /\ extracted = None
    /\ ntokens < MaxTokens
    /\ \E k \in 1..Len(Tokens) : raw' = raw \o Tokens[k]
    /\ ntokens' = ntokens + 1
    /\ UNCHANGED <<extracted, textVars, flowVars>>

\* extract_json(raw)
Extract ==
    /\ extracted = None
    /\ extracted' = extract_json(raw)
    /\ UNCHANGED <<raw, ntokens, textVars, flowVars>>

NextJson == AppendToken \/ Extract

SpecJson == InitJson /\ [][NextJson]_vars

(***************************************************************************)
(* Spec: requests to /api/submit, /api/check and /api/report, served one   *)
(* at a time.  The variables of a finished request (req, analysis, calls,  *)
(* ai_result, response or get_response) keep their last values until the   *)
(* next request is accepted.                                               *)
(***************************************************************************)
MaxSubmissions == 1

\* student_name values of a request body ('' also stands for a missing key).
Names == << <<>>, <<" ">>, <<"a", "n", "n", " ">> >>

\* assignment_text values of a request body.
Texts ==
    << <<>>,
       <<" ", "\n">>,
       <<" ", "I", "n", "t", "r", "o", " ", "w", ".", "\n">>,
       LongSentence("a") >>

\* Texts the model may answer with.
Responses ==
    << << "j", "s", "o", "n", ":", "\n", "{", "\"", "o", "v", "e",
          "r", "a", "l", "l", "_", "e", "v", "a", "l", "u", "a", "t", "i", "o",
          "n", "\"", ":", " ", "\"", "o", "k", "\"", ",", " ", "\"", "s", "t",
          "r", "e", "n", "g", "t", "h", "s", "\"", ":", " ", "[", "\"", "a",
          "\\", "\"", "b", "\"", ",", " ", "\"", "c", "\\", "n", "d", "\"",
          "]", ",", " ", "\"", "w", "e", "a", "k", "n", "e", "s", "s", "e",
          "s", "\"", ":", " ", "[", "]", ",", " ", "\"", "s", "u", "g", "g",
          "e", "s", "t", "i", "o", "n", "s", "\"", ":", " ", "[", "\"", "e",
          "\\", "\\", "\"", "]", "}", "\n", "e", "n", "d", "\n" >>,
       << "H", "e", "r", "e", ":", " ", "{", "\"", "s", "t", "r", "e", "n",
          "g", "t", "h", "s", "\"", ":", " ", "[", "\"", "{", "a", "}", "\"",
          "]", "}", " " >>,
       << "{", "}" >>,
       << "s", "o", "r", "r", "y" >>,
       << "{", "\"", "o", "v", "e", "r", "a", "l", "l", "_", "e", "v", "a",
          "l", "u", "a", "t", "i", "o", "n", "\"", ":", " ", "\"", "o" >>,
       << "{", "x", "}" >>,
       << "{", "\"", "o", "v", "e", "r", "a", "l", "l", "_", "e", "v", "a",
          "l", "u", "a", "t", "i", "o", "n", "\"", ":", " ", "[", "\"", "a",
          "\"", "]", "}" >> >>

CallOutcomes ==
    {CallRaises, CallEmpty} \cup {CallText(Responses[k]) : k \in 1..Len(Responses)}

\* The process has started: load_dotenv has run (with or without a key in
\* .env) and init_db has run on a database file that had no reports table
\* or an empty one created without the AI feedback columns.
Init ==
    /\ IdleText
    /\ IdleJson
    /\ \E existing \in {<<>>, LegacyColumns} : columns = init_db(existing)
    /\ api_key \in BOOLEAN
    /\ pc = "idle"
    /\ req = None
    /\ analysis = None
    /\ attempt = 0
    /\ calls = <<>>
    /\ ai_result = None
    /\ response = None
    /\ assignments = <<>>
    /\ reports = <<>>
    /\ stored = <<>>
    /\ get_response = None

\* The handler answers before any analysis: validation failed.
Rejected(msg) ==
    /\ response' = ErrorResponse(400, msg)
    /\ pc' = "idle"
    /\ req' = None
    /\ analysis' = None
    /\ attempt' = 0
    /\ calls' = <<>>
    /\ ai_result' = None
    /\ UNCHANGED <<assignments, reports, stored>>

\* The handler has validated request r: it analyses the text and enters
\* generate_ai_feedback, which raises at once without a key and otherwise
\* blocks in its first call_model().
Accepted(r) ==
    LET report_ == analyze_assignment(r.assignment_text)
        begin   == generate_begin(api_key)
    IN  /\ req' = r
        /\ analysis' = report_
        /\ attempt' = 0
        /\ calls' = <<>>
        /\ IF begin.done
           THEN /\ pc' = "idle"
                /\ ai_result' = begin.result
                /\ Finish(r, report_, begin.result)
           ELSE /\ pc' = "call"
                /\ ai_result' = None
                /\ UNCHANGED <<response, assignments, reports, stored>>

\* POST /api/submit, lines 241-285 up to the first call_model().
submit_assignment ==
    /\ pc = "idle"
    /\ Len(assignments) < MaxSubmissions
    /\ \/ Rejected(<<"No data provided">>)
       \/ \E n \in 1..Len(Names), t \in 1..Len(Texts) :
            LET student_name    == strip(Names[n])
                assignment_text == strip(Texts[t])
            IN  IF student_name = <<>>
                    THEN Rejected(<<"Student name is required">>)
                ELSE IF assignment_text = <<>>
                    THEN Rejected(<<"Assignment text is required">>)
                ELSE Accepted([endpoint |-> "submit",
                               student_name |-> student_name,
                               assignment_text |-> assignment_text])
    /\ get_response' = None
    /\ UNCHANGED <<textVars, jsonVars, columns, api_key>>

\* POST /api/check, lines 454-481 up to the first call_model().
check_assignment ==
    /\ pc = "idle"
    /\ \/ Rejected(<<"No data provided">>)
       \/ \E t \in 1..Len(Texts) :
            LET assignment_text == strip(Texts[t])
            IN  IF assignment_text = <<>>
                    THEN Rejected(<<"Assignment text is required">>)
                ELSE Accepted([endpoint |-> "check",
                               student_name |-> <<>>,
                               assignment_text |-> assignment_text])
    /\ get_response' = None
    /\ UNCHANGED <<textVars, jsonVars, columns, api_key>>

\* call_model() returns or raises; generate_ai_feedback goes on to its next
\* call_model() or ends, and with it the handler runs to its response.
call_model ==
    /\ pc = "call"
    /\ \E outcome \in CallOutcomes :
        LET step == generate_attempt(attempt, outcome)
        IN  /\ calls' = Append(calls, [kind |-> outcome.kind, extract |-> step.extract])
            /\ IF step.done
               THEN /\ pc' = "idle"
                    /\ ai_result' = step.result
                    /\ attempt' = attempt
                    /\ Finish(req, analysis, step.result)
               ELSE /\ pc' = "call"
                    /\ attempt' = attempt + 1
                    /\ UNCHANGED <<ai_result, response, assignments, reports, stored>>
    /\ UNCHANGED <<textVars, jsonVars, columns, api_key, req, analysis, get_response>>

\* GET /api/report/<assignment_id>
get_report ==
    /\ pc = "idle"
    /\ \E assignment_id \in 1..(MaxSubmissions + 1) :
        LET found == SelectSeq(reports, LAMBDA row : row[2].v = assignment_id)
        IN  get_response' =
                IF found = <<>>
                THEN [status |-> 404, assignment_id |-> assignment_id,
                      body |-> [error |-> <<"Report not found">>]]
                ELSE [status |-> 200, assignment_id |-> assignment_id,
                      body |-> ReportDict(found[1])]
    /\ req' = None
    /\ analysis' = None
    /\ attempt' = 0
    /\ calls' = <<>>
    /\ ai_result' = None
    /\ response' = None
    /\ UNCHANGED <<textVars, jsonVars, columns, api_key, pc, assignments, reports,
                   stored>>

Next == submit_assignment \/ check_assignment \/ call_model \/ get_report

Spec == Init /\ [][Next]_vars

(***************************************************************************)
(* Reference definitions the analysis is compared against.  They are       *)
(* stated on positions of the text, independently of split, strip, lower   *)
(* and re_split above.                                                     *)
(***************************************************************************)
\* Number of words of t[a..b]: positions where a non-blank follows a blank
\* or starts the range.
RefWordCount(t, a, b) ==
    Cardinality({i \in a..b :
        /\ t[i] \notin {" ", "\n"}
        /\ (i = a \/ t[i - 1] \in {" ", "\n"})})

RefIsEnd(ch) == ch = "." \/ ch = "!" \/ ch = "?"

\* The sentences of t as pairs <<first, last>> of positions, in order of
\* appearance: maximal ranges without terminator, cut back to their first and
\* last non-blank character; ranges holding only blanks are dropped.
RefSentences(t) ==
    LET n     == Len(t)
        firsts == SelectSeq(Idx(t), LAMBDA i :
                     ~RefIsEnd(t[i]) /\ (i = 1 \/ RefIsEnd(t[i - 1])))
        lasts  == SelectSeq(Idx(t), LAMBDA i :
                     ~RefIsEnd(t[i]) /\ (i = n \/ RefIsEnd(t[i + 1])))
        inked(k) == {i \in firsts[k]..lasts[k] : t[i] \notin {" ", "\n"}}
        lo(k) == CHOOSE i \in inked(k) : \A j \in inked(k) : i <= j
        hi(k) == CHOOSE i \in inked(k) : \A j \in inked(k) : i >= j
        kept  == SelectSeq([k \in 1..Len(firsts) |-> k],
                           LAMBDA k : inked(k) # {})
    IN  [q \in 1..Len(kept) |-> <<lo(kept[q]), hi(kept[q])>>]

\* The sentences of t having more than 20 words, in order of appearance.
RefLongSentences(t) ==
    SelectSeq(RefSentences(t), LAMBDA r : RefWordCount(t, r[1], r[2]) > 20)

\* kw occurs in t when letter case is ignored (kw is lower-case).
RefFolded(ch) == IF ch = "I" THEN "i" ELSE IF ch = "B" THEN "b"
                 ELSE IF ch = "S" THEN "s" ELSE ch

RefOccurs(t, kw) ==
    \E off \in 0..(Len(t) - Len(kw)) :
        \A j \in 1..Len(kw) : RefFolded(t[off + j]) = kw[j]

RefMissing(sections) ==
    (IF sections.has_introduction THEN 0 ELSE 1)
    + (IF sections.has_body THEN 0 ELSE 1)
    + (IF sections.has_conclusion THEN 0 ELSE 1)

\* The text holds blanks only (the empty text included).
OnlyBlanks(t) == \A i \in 1..Len(t) : t[i] \in {" ", "\n"}

(***************************************************************************)
(* Claims on analyze_assignment (SpecText).                                *)
(***************************************************************************)
\* C1: for every input text, empty and whitespace-only texts included,
\* analyze_assignment returns an integer overall_score with
\* 0 <= overall_score <= 100.
C1_ScoreInRange ==
    report # None =>
        /\ report.overall_score \in Int
        /\ 0 <= report.overall_score
        /\ report.overall_score <= 100

\* C1 witness: a non-empty whitespace-only text has been analysed.
C1_Witness ==
    /\ report # None
    /\ text # <<>>
    /\ OnlyBlanks(text)
    /\ report.overall_score \in 0..100

\* C5: overall_score = max(0, 100 - 20 * (false section flags)
\* - min(2 * long_sentences_count, 20) - D) with
\* D = min((200 - word_count) // 10, 20) if word_count < 200, else 0;
\* the empty text scores 20; all flags true, at least 200 words and no long
\* sentence scores 100.
C5_ScoreFormula ==
    report # None =>
        LET wc == report.word_count
            lc == report.long_sentences_count
            D  == IF wc < 200
                  THEN (IF (200 - wc) \div 10 < 20 THEN (200 - wc) \div 10 ELSE 20)
                  ELSE 0
            L  == IF 2 * lc < 20 THEN 2 * lc ELSE 20
            v  == 100 - 20 * RefMissing(report.sections) - L - D
        IN  /\ wc = RefWordCount(text, 1, Len(text))
            /\ report.overall_score = (IF v < 0 THEN 0 ELSE v)
            /\ (text = <<>> => report.overall_score = 20)
            /\ (/\ report.sections.has_introduction
                /\ report.sections.has_body
                /\ report.sections.has_conclusion
                /\ wc >= 200
                /\ lc = 0) => report.overall_score = 100

\* C5 witness: a text with the three sections, at least 200 words and no long
\* sentence has been analysed and scores 100.
C5_Witness ==
    /\ report # None
    /\ report.sections.has_introduction
    /\ report.sections.has_body
    /\ report.sections.has_conclusion
    /\ report.word_count >= 200
    /\ report.long_sentences_count = 0
    /\ report.overall_score = 100

\* C6: long_sentences_count is the number of sentences (split on runs of
\* '.', '!', '?', trimmed, empty ones dropped) having more than 20 words;
\* long_sentences has length min(long_sentences_count, 5) and holds the first
\* that many such sentences in their order of appearance.
C6_LongSentences ==
    report # None =>
        LET ref == RefLongSentences(text)
        IN  /\ report.long_sentences_count = Len(ref)
            /\ Len(report.long_sentences)
                   = (IF Len(ref) < 5 THEN Len(ref) ELSE 5)
            /\ \A k \in 1..Len(report.long_sentences) :
                   report.long_sentences[k] = SubSeq(text, ref[k][1], ref[k][2])

\* C6 witness: more than five long sentences were found and five are returned.
C6_Witness ==
    /\ report # None
    /\ report.long_sentences_count > 5
    /\ Len(report.long_sentences) = 5

\* C10: has_introduction iff the lower-cased text contains 'introduction',
\* 'intro' or 'introduce'; has_conclusion iff it contains 'conclusion',
\* 'conclude', 'summary' or 'summarize'; has_body iff it contains 'body',
\* 'main', 'content' or 'discuss' or the text has more than 50 words.
C10_Sections ==
    report # None =>
        LET wc == RefWordCount(text, 1, Len(text))
        IN  /\ report.sections.has_introduction <=>
                   \/ RefOccurs(text, <<"i","n","t","r","o","d","u","c","t","i","o","n">>)
                   \/ RefOccurs(text, <<"i","n","t","r","o">>)
                   \/ RefOccurs(text, <<"i","n","t","r","o","d","u","c","e">>)
            /\ report.sections.has_conclusion <=>
                   \/ RefOccurs(text, <<"c","o","n","c","l","u","s","i","o","n">>)
                   \/ RefOccurs(text, <<"c","o","n","c","l","u","d","e">>)
                   \/ RefOccurs(text, <<"s","u","m","m","a","r","y">>)
                   \/ RefOccurs(text, <<"s","u","m","m","a","r","i","z","e">>)
            /\ report.sections.has_body <=>
                   \/ RefOccurs(text, <<"b","o","d","y">>)
                   \/ RefOccurs(text, <<"m","a","i","n">>)
                   \/ RefOccurs(text, <<"c","o","n","t","e","n","t">>)
                   \/ RefOccurs(text, <<"d","i","s","c","u","s","s">>)
                   \/ wc > 50
            /\ (wc > 50 => report.sections.has_body)

\* C10 witness: a text of exactly 51 words without any body keyword has been
\* analysed and has_body is true.
C10_Witness ==
    /\ report # None
    /\ report.word_count = 51
    /\ ~RefOccurs(text, <<"b","o","d","y">>)
    /\ report.sections.has_body

(***************************************************************************)
(* The brace-balanced reference of extract_json, stated on positions: a    *)
(* character is escaped when an odd number of backslashes runs up to it,   *)
(* it lies in a string when an odd number of unescaped quotes precedes it. *)
(***************************************************************************)
\* Length of the run of backslashes in r[from..i-1] that ends at i - 1.
RefSlashRun(r, from, i) ==
    Cardinality({j \in from..(i - 1) : \A q \in j..(i - 1) : r[q] = "\\"})

RefEscaped(r, from, i) == RefSlashRun(r, from, i) % 2 = 1

RefInString(r, from, i) ==
    Cardinality({j \in from..(i - 1) :
        r[j] = "\"" /\ ~RefEscaped(r, from, j)}) % 2 = 1

\* r[i] is ch, read as a brace: neither escaped nor inside a string.
RefBrace(r, from, i, ch) ==
    r[i] = ch /\ ~RefEscaped(r, from, i) /\ ~RefInString(r, from, i)

RefDepth(r, from, i) ==
    Cardinality({j \in from..i : RefBrace(r, from, j, "{")})
    - Cardinality({j \in from..i : RefBrace(r, from, j, "}")})

\* Positions of a '}' outside strings at which the depth is back to zero.
RefClosings(r, from) ==
    {i \in from..Len(r) : RefBrace(r, from, i, "}") /\ RefDepth(r, from, i) = 0}

RefExtract(r) ==
    LET opens == {i \in 1..Len(r) : r[i] = "{"}
        from  == CHOOSE i \in opens : \A j \in opens : i <= j
        ends  == RefClosings(r, from)
        to    == CHOOSE i \in ends : \A j \in ends : i <= j
    IN  IF opens = {} THEN Raised(<<"No JSON object found in Gemini response">>)
        ELSE IF ends = {} THEN Raised(<<"Incomplete JSON (missing closing brace)">>)
        ELSE json_loads(SubSeq(r, from, to))

\* C4: extract_json's outcome equals the brace-balanced reference: no '{'
\* fails with 'no JSON object found'; otherwise the parse of the text from the
\* first '{' through the first '}' outside a string at which the depth returns
\* to zero (braces inside quoted strings and text around the object do not
\* count); the scan ending before that fails with an incomplete-JSON error.
C4_ExtractJson ==
    extracted # None => extracted = RefExtract(raw)

\* C4 witness: the response {"k":"}"} has been extracted to the object whose
\* key k holds the string "}".
C4_Witness ==
    /\ extracted # None
    /\ raw = <<"{", "\"", "k", "\"", ":", "\"", "}", "\"", "}">>
    /\ extracted = Returned(JDict(<< [k |-> <<"k">>, v |-> JStr(<<"}">>)] >>))

(***************************************************************************)
(* Claims on the request handlers and generate_ai_feedback (Spec).         *)
(***************************************************************************)
\* The request in flight or last served was accepted and has been answered.
Answered == pc = "idle" /\ req # None /\ ai_result # None /\ response # None

\* The response is a success response of /api/check or /api/submit.
Succeeded == response # None /\ response.status \in {200, 201}

HasKey(d, key) == \E j \in 1..Len(d.v) : d.v[j].k = key

\* C2: in the check and submit flows, whenever generate_ai_feedback fails
\* (missing credential, provider call raising, JSON extraction failing on both
\* attempts) the request completes successfully: the report returned is
\* analyze_assignment(text) with every analysis field, ai_feedback is null and
\* ai_error is non-null.
C2_AiFailureAbsorbed ==
    (Answered /\ ~ai_result.ok) =>
        /\ response.status = (IF req.endpoint = "submit" THEN 201 ELSE 200)
        /\ response.body.success
        /\ response.body.report = analyze_assignment(req.assignment_text)
        /\ DOMAIN response.body.report =
               {"word_count", "sections", "long_sentences_count",
                "long_sentences", "overall_score", "feedback"}
        /\ response.body.ai_feedback = None
        /\ response.body.ai_error # None

\* C2 witness: a submission whose two model responses both failed JSON
\* extraction has been answered 201 with its report and an ai_error.
C2_Witness ==
    /\ Answered
    /\ req.endpoint = "submit"
    /\ Len(calls) = 2
    /\ ~ai_result.ok
    /\ response.status = 201
    /\ response.body.ai_feedback = None
    /\ response.body.ai_error # None

\* C3: within one call of generate_ai_feedback the model is invoked at most
\* twice, one invocation after the other; the second invocation happens if and
\* only if the first returned text that failed JSON extraction (a first
\* response that extracts is returned without a second call); when the second
\* response fails extraction too, the call raises an error wrapping that
\* failure's message.
C3_RetryProtocol ==
    /\ Len(calls) <= 2
    /\ pc = "call" => (ai_result = None /\ Len(calls) = attempt)
    /\ Len(calls) = 2 => (calls[1].kind = "text" /\ ~calls[1].extract.ok)
    /\ Len(calls) = 1 =>
           IF calls[1].kind = "text"
           THEN IF calls[1].extract.ok
                THEN pc = "idle" /\ ai_result = Returned(calls[1].extract.value)
                ELSE pc = "call" /\ attempt = 1
           ELSE pc = "idle" /\ ~ai_result.ok
    /\ (Len(calls) = 2 /\ calls[2].kind = "text") =>
           /\ pc = "idle"
           /\ IF calls[2].extract.ok
              THEN ai_result = Returned(calls[2].extract.value)
              ELSE ai_result =
                       Raised(<<"Gemini API error: ">> \o calls[2].extract.error)

\* C3 witness: the first response failed extraction, the second was truncated
\* and the call has raised the wrapped incomplete-JSON error.
C3_Witness ==
    /\ Len(calls) = 2
    /\ calls[2].kind = "text"
    /\ ~calls[2].extract.ok
    /\ ai_result = Raised(<<"Gemini API error: ",
                            "Incomplete JSON (missing closing brace)">>)

\* C7: in every successful response of the check and submit flows ai_feedback
\* and ai_error are never both non-null, and whenever ai_feedback is null
\* ai_error is non-null.
C7_FeedbackOrError ==
    Succeeded =>
        /\ ~(response.body.ai_feedback # None /\ response.body.ai_error # None)
        /\ response.body.ai_feedback = None => response.body.ai_error # None

\* C7 witness: the model answered {} and the request succeeded with the empty
\* object as ai_feedback and no ai_error.
C7_Witness ==
    /\ Succeeded
    /\ response.body.ai_feedback = JDict(<<>>)
    /\ response.body.ai_error = None

\* C8: whenever the final report carries a non-null ai_feedback, that object
\* contains the four fields overall_evaluation, strengths, weaknesses and
\* suggestions, for every model response extract_json returns from.
C8_FeedbackComplete ==
    (Succeeded /\ response.body.ai_feedback # None) =>
        /\ HasKey(response.body.ai_feedback, KeyEvaluation)
        /\ HasKey(response.body.ai_feedback, KeyStrengths)
        /\ HasKey(response.body.ai_feedback, KeyWeaknesses)
        /\ HasKey(response.body.ai_feedback, KeySuggestions)

\* On a freshly created table, the AI lists /api/report returns are the ones
\* the report was stored from.
AiListsReadBack ==
    (get_response # None /\ get_response.status = 200
        /\ columns = CreatedColumns) =>
        LET was == stored[get_response.assignment_id]
            got == get_response.body
        IN  /\ got.has_ai_feedback = was.has_ai
            /\ was.has_ai =>
                /\ dict_get(got.ai_feedback, KeyStrengths, None) = was.strengths
                /\ dict_get(got.ai_feedback, KeyWeaknesses, None) = was.weaknesses
                /\ dict_get(got.ai_feedback, KeySuggestions, None) = was.suggestions

\* C9 (on a freshly created table): the storage encoding of the list-valued
\* report fields is reversible:
\* for every report stored by submit_assignment, get_report returns a
\* long_sentences list equal to the list stored, and strengths, weaknesses and
\* suggestions lists equal to the ones stored, whatever the list elements hold.
C9_ListsReadBack ==
    (get_response # None /\ get_response.status = 200
        /\ columns = CreatedColumns) =>
        /\ get_response.body.long_sentences
               = stored[get_response.assignment_id].long_sentences
        /\ AiListsReadBack

(***************************************************************************)
(* Reference for the migration: the row of a report as a freshly created   *)
(* table holds it, every cell found by the name of its column.             *)
(***************************************************************************)
ColumnAt(cols, name) == CHOOSE c \in 1..Len(cols) : cols[c] = name

FreshRow(cols, row) ==
    [c \in 1..Len(CreatedColumns) |-> row[ColumnAt(cols, CreatedColumns[c])]]

\* The stored row /api/report answered from.
ReadRow == reports[CHOOSE r \in 1..Len(reports) :
                       reports[r][2].v = get_response.assignment_id]

\* A report has been read from a table init_db migrated.
ReadMigrated ==
    /\ get_response # None
    /\ get_response.status = 200
    /\ columns = init_db(LegacyColumns)

\* C11: for a reports table that existed without the four AI columns and was
\* migrated by init_db, get_report returns a stored report with the same
\* overall_evaluation, strengths, weaknesses, suggestions (the ai_feedback
\* object) and created_at as the same submission yields on a freshly created
\* table.
C11_MigrationReadBack ==
    ReadMigrated =>
        LET fresh == ReportDict(FreshRow(columns, ReadRow))
        IN  /\ get_response.body.has_ai_feedback = fresh.has_ai_feedback
            /\ get_response.body.ai_feedback = fresh.ai_feedback
            /\ get_response.body.created_at = fresh.created_at

(***************************************************************************)
(* The floor of the score (SpecText).                                      *)
(***************************************************************************)
\* The score before the final max(0, score), from the report's own counts.
RefUnclamped ==
    LET wc == report.word_count
        lc == report.long_sentences_count
        D  == IF wc < 200
              THEN (IF (200 - wc) \div 10 < 20 THEN (200 - wc) \div 10 ELSE 20)
              ELSE 0
        L  == IF 2 * lc < 20 THEN 2 * lc ELSE 20
    IN  100 - 20 * RefMissing(report.sections) - L - D

\* C12: k >= 1 long sentences force word_count >= 20 * k + 1, so the three
\* deductions never all reach their maximum together: for every text
\* overall_score >= 20, the value 20 is reached only when word_count is 0, a
\* text with has_body true scores at least 40, and the final max(0, score)
\* leaves the score as it was.
C12_ScoreFloor ==
    report # None =>
        /\ report.long_sentences_count >= 1 =>
               report.word_count >= 20 * report.long_sentences_count + 1
        /\ report.overall_score >= 20
        /\ report.overall_score = 20 => report.word_count = 0
        /\ report.sections.has_body => report.overall_score >= 40
        /\ report.overall_score = RefUnclamped

\* C12 witness: a text with a body and no introduction or conclusion, whose
\* ten or more long sentences exhaust the long-sentence deduction, has been
\* analysed and scores exactly 40.
C12_Witness ==
    /\ report # None
    /\ report.sections.has_body
    /\ ~report.sections.has_introduction
    /\ ~report.sections.has_conclusion
    /\ report.long_sentences_count >= 10
    /\ report.word_count >= 20 * report.long_sentences_count + 1
    /\ report.overall_score = 40

====
